---- MODULE Spec2Model ----
(***************************************************************************)
(* Model of the bank ledger: the account transaction engine               *)
(* (AccountServiceImpl: Deposit, Withdraw, Transfer, GetBalance,          *)
(* GetStatement), the Storage Port and its in-memory backend              *)
(* (MemoryStorage: SaveAccount, LoadAccount, GetAllAccounts), and account *)
(* creation (NewAccount / generateID).                                    *)
(*                                                                         *)
(* Accounts are heap objects reached through pointers to Account: the     *)
(* heap is a sequence, a pointer is an index into it.  The storage map    *)
(* holds pointers, so it shares the objects the engines mutate.           *)
(* Amounts and balances are float64: finite values (exact on the small    *)
(* integers used here), NaN and +/-Inf.                                   *)
(***************************************************************************)
EXTENDS Integers, Sequences, FiniteSets, TLC

VARIABLES
    heap,       \* heap of Account objects; a pointer is an index 1..Len(heap)
    accounts,   \* MemoryStorage.accounts: map ID -> pointer
    now,        \* the wall clock (time.Now().UnixNano()), non-decreasing
    backend,    \* which Storage Port the engines hold: "memory" or "faulty"
    pc,         \* where the caller is: "idle" between calls, a statement of
                \* the running Transfer, "returned" holding a call's result
    call,       \* the running or returned call: operation, receiver,
                \* arguments, and the state it was called in
    ret,        \* the error that call returned
    port,       \* the saves that call has made through the Storage Port,
                \* in order
    events,     \* per account object: successful balance-changing events
    val,        \* the value that call returned besides its error
    saved,      \* per identifier ever saved under: the account last saved
    everSaved,  \* the account objects a save has ever succeeded for
    appAccounts,    \* BankApp.accounts: map ID -> engine (the session cache)
    currentAccount, \* BankApp.currentAccount: an engine, or nil
    cmd         \* the menu command being carried out: its name, and
                \* BankApp's fields as they were when it was chosen

\* BankApp's part of the state
appVars == <<appAccounts, currentAccount, cmd>>

vars ==
    <<heap, accounts, now, backend, pc, call, ret, port, events, val, saved,
      everSaved, appVars>>

----------------------------------------------------------------------------
(* Bounds of the model *)

MaxAccounts == 2
MaxOps == 2
MaxClock == 1
MaxAmount == 2

----------------------------------------------------------------------------
(* float64 *)

Fin(n) == [cls |-> "fin", v |-> n]
NaN == [cls |-> "nan", v |-> 0]
PInf == [cls |-> "inf", v |-> 1]
NInf == [cls |-> "inf", v |-> -1]
Zero == Fin(0)

\* a < b
FLt(a, b) ==
    IF a.cls = "nan" \/ b.cls = "nan" THEN FALSE
    ELSE IF a.cls = "inf" THEN a.v < 0 /\ ~(b.cls = "inf" /\ b.v < 0)
    ELSE IF b.cls = "inf" THEN b.v > 0
    ELSE a.v < b.v

\* a <= b
FLe(a, b) ==
    IF a.cls = "nan" \/ b.cls = "nan" THEN FALSE
    ELSE a = b \/ FLt(a, b)

\* a + b
FAdd(a, b) ==
    IF a.cls = "nan" \/ b.cls = "nan" THEN NaN
    ELSE IF a.cls = "inf" /\ b.cls = "inf" THEN (IF a.v = b.v THEN a ELSE NaN)
    ELSE IF a.cls = "inf" THEN a
    ELSE IF b.cls = "inf" THEN b
    ELSE Fin(a.v + b.v)

\* -a
FNeg(a) == IF a.cls = "nan" THEN NaN ELSE [cls |-> a.cls, v |-> 0 - a.v]

\* a - b
FSub(a, b) == FAdd(a, FNeg(b))

\* The amounts a caller may pass: negative, zero and positive finite values,
\* NaN and both infinities.
Amounts == {Fin(n) : n \in -1..MaxAmount} \cup {NaN, PInf, NInf}

----------------------------------------------------------------------------
(* Errors *)

ErrInsufficientFunds == "ErrInsufficientFunds"
ErrInvalidAmount == "ErrInvalidAmount"
ErrAccountNotFound == "ErrAccountNotFound"
ErrSameAccountTransfer == "ErrSameAccountTransfer"
\* the error of a Storage Port whose save fails
ErrPersist == "ErrPersist"

\* An error value; `at` is the account a failed save was called with.
Nil == [err |-> "nil", at |-> 0]
Err(e) == [err |-> e, at |-> 0]
PersistErr(p) == [err |-> ErrPersist, at |-> p]

\* No error yet: the call is running.
Pending == [err |-> "pending", at |-> 0]

----------------------------------------------------------------------------
(* Ledger entities *)

DepositTransaction == "DEPOSIT"
WithdrawTransaction == "WITHDRAW"
TransferTransaction == "TRANSFER"

\* fmt.Sprintf("ACC%d", n) and fmt.Sprintf("TX%d", n)
generateID(t) == <<"ACC", t>>
TxID(t) == <<"TX", t>>

\* Transaction{ID, Type, Amount, Timestamp, Message}; the message is the
\* format's text with the values it prints.  ID and Timestamp are two
\* successive samples of the clock, taken here at the same reading t.
Transaction(t, type, amount, text, peer) ==
    [ID |-> TxID(t), Type |-> type, Amount |-> amount, Timestamp |-> t,
     Message |-> [text |-> text, id |-> peer, amount |-> amount]]

NoID == <<"", 0>>

NewAccount(ownerName, t) ==
    [ID |-> generateID(t), OwnerName |-> ownerName, Balance |-> Zero,
     Transactions |-> <<>>, CreatedAt |-> t]

Ptrs == 1..Len(heap)

\* The balance-changing operations carried out so far: each left one record
\* on the account it was called on (a Transfer one more, on its target).
RECURSIVE OwnRecords(_)
OwnRecords(txs) ==
    IF txs = <<>> THEN 0
    ELSE (IF Head(txs).Message.text = "transfer from" THEN 0 ELSE 1)
         + OwnRecords(Tail(txs))

RECURSIVE NOps(_)
NOps(h) ==
    IF h = <<>> THEN 0 ELSE OwnRecords(Head(h).Transactions) + NOps(Tail(h))

----------------------------------------------------------------------------
(* Storage Port *)

EmptyMap == [x \in {} |-> 0]

\* Faulty variant of SaveAccount: an identifier already in the map keeps its
\* entry.
M_SaveAccountKeepsFirst(m, h, account) ==
    [id \in DOMAIN m \cup {h[account].ID} |->
        IF id \in DOMAIN m THEN m[id] ELSE account]

\* Faulty variant of SaveAccount: the map is replaced by the one entry.
M_SaveAccountDropsOthers(m, h, account) ==
    [id \in {h[account].ID} |-> account]

\* MemoryStorage.SaveAccount: s.accounts[account.ID] = account
SaveAccount(m, h, account) ==
    [id \in DOMAIN m \cup {h[account].ID} |->
        IF id = h[account].ID THEN account ELSE m[id]]

\* Faulty variant of LoadAccount: an unknown identifier gives some stored
\* account.
M_LoadAccountNeverFails(m, accountID) ==
    IF accountID \in DOMAIN m THEN m[accountID]
    ELSE IF DOMAIN m # {} THEN m[CHOOSE id \in DOMAIN m : TRUE]
    ELSE 0

\* MemoryStorage.LoadAccount: the pointer stored under accountID, 0 for
\* (nil, ErrAccountNotFound)
LoadAccount(m, accountID) ==
    IF accountID \in DOMAIN m THEN m[accountID] ELSE 0

\* The identifiers a caller may ask the Storage Port for: those generateID
\* can have produced, saved under or not.
AccountIDs == {generateID(t) : t \in 0..MaxClock}

\* MemoryStorage.GetAllAccounts: the values of the map, appended in the
\* order the range loop visits the keys; that order is any order.
KeyOrders(m) ==
    {f \in [1..Cardinality(DOMAIN m) -> DOMAIN m] :
        \A i, j \in DOMAIN f : i # j => f[i] # f[j]}

\* Faulty variant of GetAllAccounts: every slot of the result holds the
\* account visited first.
M_GetAllAccountsRepeatsFirst(m, order) ==
    [i \in DOMAIN order |-> m[order[1]]]

GetAllAccounts(m, order) == [i \in DOMAIN order |-> m[order[i]]]

\* The accounts ever saved, after that save.
PortEverSaved(ever, account, ok) ==
    IF ok THEN ever \cup {account} ELSE ever

\* The outcomes of one save through the Storage Port the engine holds: the
\* in-memory backend always succeeds, another backend may return an error.
SaveOutcomes == IF backend = "faulty" THEN {TRUE, FALSE} ELSE {TRUE}

\* storage.SaveAccount(account) with outcome ok: the map afterwards, the
\* error returned, and the call as the port saw it: the account it was
\* handed and the state that account was in.
PortSave(m, h, account, ok) == IF ok THEN SaveAccount(m, h, account) ELSE m
PortErr(account, ok) == IF ok THEN Nil ELSE PersistErr(account)
PortCall(h, account, ok) ==
    [op |-> "save", account |-> account, state |-> h[account], ok |-> ok]

\* The account last saved under each identifier, after that save.
PortSaved(last, h, account, ok) ==
    IF ok
    THEN [id \in DOMAIN last \cup {h[account].ID} |->
            IF id = h[account].ID THEN account ELSE last[id]]
    ELSE last

----------------------------------------------------------------------------
(* Account transaction engine: the pieces of Deposit, Withdraw, Transfer *)

\* s.account.Balance += amount / to.Balance += amount
Credit(h, p, amount) ==
    [h EXCEPT ![p].Balance = FAdd(h[p].Balance, amount)]

\* s.account.Balance -= amount
Debit(h, p, amount) ==
    [h EXCEPT ![p].Balance = FSub(h[p].Balance, amount)]

\* Faulty variant of AppendTx: the new record goes in front.
M_AppendTxPrepends(h, p, tx) ==
    [h EXCEPT ![p].Transactions = <<tx>> \o h[p].Transactions]

\* account.Transactions = append(account.Transactions, transaction)
AppendTx(h, p, tx) ==
    [h EXCEPT ![p].Transactions = Append(h[p].Transactions, tx)]

\* Faulty variant of DepositError: only negative amounts are refused.
M_DepositErrorAllowsZero(amount) ==
    IF FLt(amount, Zero) THEN ErrInvalidAmount ELSE "nil"

\* Deposit's validation
DepositError(amount) ==
    IF FLe(amount, Zero) THEN ErrInvalidAmount ELSE "nil"

\* Faulty variant of WithdrawError: the balance is not checked.
M_WithdrawErrorNoFundsCheck(h, self, amount) ==
    IF FLe(amount, Zero) THEN ErrInvalidAmount ELSE "nil"

\* Withdraw's validation
WithdrawError(h, self, amount) ==
    IF FLe(amount, Zero) THEN ErrInvalidAmount
    ELSE IF FLt(h[self].Balance, amount) THEN ErrInsufficientFunds
    ELSE "nil"

\* Faulty variant of TransferError: the identifiers are compared first.
M_TransferErrorSameAccountFirst(h, self, to, amount) ==
    IF h[self].ID = h[to].ID THEN ErrSameAccountTransfer
    ELSE IF FLe(amount, Zero) THEN ErrInvalidAmount
    ELSE IF FLt(h[self].Balance, amount) THEN ErrInsufficientFunds
    ELSE "nil"

\* Transfer's validation
TransferError(h, self, to, amount) ==
    IF FLe(amount, Zero) THEN ErrInvalidAmount
    ELSE IF FLt(h[self].Balance, amount) THEN ErrInsufficientFunds
    ELSE IF h[self].ID = h[to].ID THEN ErrSameAccountTransfer
    ELSE "nil"

\* Faulty variant of DepositApply: the balance grows, no record is appended.
M_DepositApplyNoRecord(h, self, amount, t) == Credit(h, self, amount)

\* Deposit's mutation of the bound account, before the save
DepositApply(h, self, amount, t) ==
    AppendTx(Credit(h, self, amount), self,
             Transaction(t, DepositTransaction, amount, "deposit", NoID))

\* Withdraw's mutation of the bound account, before the save
WithdrawApply(h, self, amount, t) ==
    AppendTx(Debit(h, self, amount), self,
             Transaction(t, WithdrawTransaction, amount, "withdraw", NoID))

\* The records of a Transfer: out on the source, in on the target
TransferOutTx(h, to, amount, t) ==
    Transaction(t, TransferTransaction, amount, "transfer to", h[to].ID)

TransferInTx(h, self, amount, t) ==
    Transaction(t, TransferTransaction, amount, "transfer from", h[self].ID)

----------------------------------------------------------------------------
(* Account transaction engine: GetBalance and GetStatement *)

\* fmt.Sprintf("%.2f", x): a finite value with two decimals (none of the
\* values here has more), NaN and the infinities by name.
FormatFloat2(x) ==
    IF x.cls = "nan" THEN [text |-> "NaN", int |-> 0, frac |-> 0]
    ELSE IF x.cls = "inf"
         THEN [text |-> IF x.v > 0 THEN "+Inf" ELSE "-Inf",
               int |-> 0, frac |-> 0]
    ELSE [text |-> "", int |-> x.v, frac |-> 0]

\* tx.Timestamp.Format("2006-01-02 15:04:05"): the reading to the second
NanosPerSecond == 1000000000

FormatTime(t) == t \div NanosPerSecond

\* One line of the statement.
Line(kind, fields) == [kind |-> kind, fields |-> fields]

EmptyHistory == <<Line("empty history", <<>>)>>

\* "timestamp | type | amount | message"
TxLine(tx) ==
    Line("tx", <<FormatTime(tx.Timestamp), tx.Type, FormatFloat2(tx.Amount),
                 tx.Message>>)

\* Faulty variant of GetBalanceValue: a credit just received from a Transfer
\* is left out.
M_GetBalanceValueWithoutLastCredit(account) ==
    LET txs == account.Transactions
    IN  IF txs # <<>> /\ txs[Len(txs)].Message.text = "transfer from"
        THEN FSub(account.Balance, txs[Len(txs)].Amount)
        ELSE account.Balance

\* AccountServiceImpl.GetBalance
GetBalanceValue(account) == account.Balance

\* Faulty variant of GetStatementText: the newest transaction comes first.
M_GetStatementTextNewestFirst(account) ==
    IF Len(account.Transactions) = 0 THEN EmptyHistory
    ELSE <<Line("title", <<>>), Line("rule", <<>>),
           Line("owner", <<account.OwnerName>>),
           Line("id", <<account.ID>>), Line("rule", <<>>)>>
         \o [i \in 1..Len(account.Transactions) |->
                TxLine(account.Transactions[
                    Len(account.Transactions) + 1 - i])]
         \o <<Line("rule", <<>>),
              Line("balance", <<FormatFloat2(account.Balance)>>)>>

\* AccountServiceImpl.GetStatement
GetStatementText(account) ==
    IF Len(account.Transactions) = 0 THEN EmptyHistory
    ELSE <<Line("title", <<>>), Line("rule", <<>>),
           Line("owner", <<account.OwnerName>>),
           Line("id", <<account.ID>>), Line("rule", <<>>)>>
         \o [i \in 1..Len(account.Transactions) |->
                TxLine(account.Transactions[i])]
         \o <<Line("rule", <<>>),
              Line("balance", <<FormatFloat2(account.Balance)>>)>>

----------------------------------------------------------------------------
(* The state after construction: no account, an empty storage *)

NoCall ==
    [op |-> "none", self |-> 0, to |-> 0, amount |-> Zero, id |-> NoID,
     heap0 |-> <<>>, accounts0 |-> EmptyMap]

\* No value: the call returns an error only, or has not returned.
NoValue == <<>>

\* An engine: the account and the Storage Port it was constructed with.
NewAccountService(account, storage) ==
    [account |-> account, storage |-> storage]

\* currentAccount == nil
NilService == [account |-> 0, storage |-> "none"]

\* No menu command is being carried out.
NoCmd ==
    [name |-> "none", currentAccount0 |-> NilService,
     appAccounts0 |-> EmptyMap]

\* The record of a call made in the current state.
Called(op, self, to, amount) ==
    [op |-> op, self |-> self, to |-> to, amount |-> amount, id |-> NoID,
     heap0 |-> heap, accounts0 |-> accounts]

\* The record of a call, made in the current state, that takes an
\* identifier.
CalledWithID(op, accountID) ==
    [Called(op, 0, 0, Zero) EXCEPT !.id = accountID]

InitWith(b) ==
    /\ heap = <<>>
    /\ accounts = EmptyMap
    /\ now = 0
    /\ backend = b
    /\ pc = "idle"
    /\ call = NoCall
    /\ ret = Nil
    /\ port = <<>>
    /\ events = <<>>
    /\ val = NoValue
    /\ saved = EmptyMap
    /\ everSaved = {}
    /\ appAccounts = EmptyMap
    /\ currentAccount = NilService
    /\ cmd = NoCmd

Init == InitWith("memory")

InitFaulty == InitWith("faulty")

\* One more successful balance-changing event on account p.
Bump(ev, p) == [ev EXCEPT ![p] = ev[p] + 1]

----------------------------------------------------------------------------
(* Operations *)

\* The wall clock advances; between two samples it may also stand still.
\* The clock only shows when it is sampled, so it is let advance right
\* before a sample: between calls, and between the two records of a Transfer.
Tick ==
    /\ now < MaxClock
    /\ pc \in {"idle", "recordIn"}
    /\ now' = now + 1
    /\ UNCHANGED <<heap, accounts, saved, everSaved, backend, val, pc, call,
                   ret, port, events>>

\* The caller has taken the result of its call and is free to make the next.
Return ==
    /\ pc = "returned"
    /\ pc' = "idle"
    /\ call' = NoCall
    /\ ret' = Nil
    /\ port' = <<>>
    /\ val' = NoValue
    /\ UNCHANGED <<heap, accounts, saved, everSaved, now, backend, events>>

\* models.NewAccount(ownerName): a new object, not yet saved
NewAccountCall ==
    /\ pc = "idle"
    /\ Len(heap) < MaxAccounts
    /\ call' = Called("NewAccount", Len(heap) + 1, 0, Zero)
    /\ heap' = Append(heap, NewAccount("ann", now))
    /\ events' = Append(events, 0)
    /\ ret' = Nil
    /\ port' = <<>>
    /\ pc' = "returned"
    /\ UNCHANGED <<accounts, saved, everSaved, now, backend, val>>

\* storage.SaveAccount(account), called by the engine's caller
SaveAccountCall(p) ==
    /\ pc = "idle"
    /\ call' = Called("SaveAccount", p, 0, Zero)
    /\ \E ok \in SaveOutcomes :
        /\ accounts' = PortSave(accounts, heap, p, ok)
        /\ saved' = PortSaved(saved, heap, p, ok)
        /\ everSaved' = PortEverSaved(everSaved, p, ok)
        /\ ret' = PortErr(p, ok)
        /\ port' = <<PortCall(heap, p, ok)>>
    /\ pc' = "returned"
    /\ UNCHANGED <<heap, now, backend, val, events>>

\* AccountServiceImpl.Deposit on the engine bound to account self
Deposit(self, amount) ==
    /\ pc = "idle"
    /\ call' = Called("Deposit", self, 0, amount)
    /\ IF DepositError(amount) # "nil"
       THEN /\ ret' = Err(DepositError(amount))
            /\ port' = <<>>
            /\ UNCHANGED <<heap, accounts, saved, everSaved, events>>
       ELSE /\ NOps(heap) < MaxOps
            /\ \E ok \in SaveOutcomes :
                /\ heap' = DepositApply(heap, self, amount, now)
                /\ accounts' = PortSave(accounts, heap', self, ok)
                /\ saved' = PortSaved(saved, heap', self, ok)
                /\ everSaved' = PortEverSaved(everSaved, self, ok)
                /\ ret' = PortErr(self, ok)
                /\ port' = <<PortCall(heap', self, ok)>>
                /\ events' = IF ok THEN Bump(events, self) ELSE events
    /\ pc' = "returned"
    /\ UNCHANGED <<now, backend, val>>

\* Faulty variant of Withdraw: when the save fails the account is put back
\* as it was.
M_WithdrawRollsBack(self, amount) ==
    /\ pc = "idle"
    /\ call' = Called("Withdraw", self, 0, amount)
    /\ IF WithdrawError(heap, self, amount) # "nil"
       THEN /\ ret' = Err(WithdrawError(heap, self, amount))
            /\ port' = <<>>
            /\ UNCHANGED <<heap, accounts, saved, everSaved, events>>
       ELSE /\ NOps(heap) < MaxOps
            /\ \E ok \in SaveOutcomes :
                LET h == WithdrawApply(heap, self, amount, now)
                IN  /\ heap' = IF ok THEN h ELSE heap
                    /\ accounts' = PortSave(accounts, h, self, ok)
                    /\ saved' = PortSaved(saved, h, self, ok)
                    /\ everSaved' = PortEverSaved(everSaved, self, ok)
                    /\ ret' = PortErr(self, ok)
                    /\ port' = <<PortCall(h, self, ok)>>
                    /\ events' = IF ok THEN Bump(events, self) ELSE events
    /\ pc' = "returned"
    /\ UNCHANGED <<now, backend, val>>

\* AccountServiceImpl.Withdraw on the engine bound to account self
Withdraw(self, amount) ==
    /\ pc = "idle"
    /\ call' = Called("Withdraw", self, 0, amount)
    /\ IF WithdrawError(heap, self, amount) # "nil"
       THEN /\ ret' = Err(WithdrawError(heap, self, amount))
            /\ port' = <<>>
            /\ UNCHANGED <<heap, accounts, saved, everSaved, events>>
       ELSE /\ NOps(heap) < MaxOps
            /\ \E ok \in SaveOutcomes :
                /\ heap' = WithdrawApply(heap, self, amount, now)
                /\ accounts' = PortSave(accounts, heap', self, ok)
                /\ saved' = PortSaved(saved, heap', self, ok)
                /\ everSaved' = PortEverSaved(everSaved, self, ok)
                /\ ret' = PortErr(self, ok)
                /\ port' = <<PortCall(heap', self, ok)>>
                /\ events' = IF ok THEN Bump(events, self) ELSE events
    /\ pc' = "returned"
    /\ UNCHANGED <<now, backend, val>>

\* Faulty variant of Transfer: the source is debited before the identifiers
\* are compared.
M_TransferDebitsBeforeSameAccountCheck(self, to, amount) ==
    /\ pc = "idle"
    /\ call' = Called("Transfer", self, to, amount)
    /\ port' = <<>>
    /\ IF TransferError(heap, self, to, amount) = ErrSameAccountTransfer
       THEN /\ heap' = Debit(heap, self, amount)
            /\ ret' = Err(ErrSameAccountTransfer)
            /\ pc' = "returned"
       ELSE IF TransferError(heap, self, to, amount) # "nil"
       THEN /\ ret' = Err(TransferError(heap, self, to, amount))
            /\ pc' = "returned"
            /\ UNCHANGED heap
       ELSE /\ NOps(heap) < MaxOps
            /\ ret' = Pending
            /\ pc' = "debit"
            /\ UNCHANGED heap
    /\ UNCHANGED <<accounts, saved, everSaved, now, backend, val, events>>

\* AccountServiceImpl.Transfer(to, amount) on the engine bound to account
\* self: the call and its three checks.  A failed check returns; otherwise
\* the mutations follow one statement at a time.
Transfer(self, to, amount) ==
    /\ pc = "idle"
    /\ call' = Called("Transfer", self, to, amount)
    /\ port' = <<>>
    /\ IF TransferError(heap, self, to, amount) # "nil"
       THEN /\ ret' = Err(TransferError(heap, self, to, amount))
            /\ pc' = "returned"
       ELSE /\ NOps(heap) < MaxOps
            /\ ret' = Pending
            /\ pc' = "debit"
    /\ UNCHANGED <<heap, accounts, saved, everSaved, now, backend, val,
                   events>>

\* s.account.Balance -= amount
TransferDebit ==
    /\ pc = "debit"
    /\ heap' = Debit(heap, call.self, call.amount)
    /\ pc' = "recordOut"
    /\ UNCHANGED <<accounts, saved, everSaved, now, backend, val, call, ret,
                   port, events>>

\* the record appended to the source
TransferRecordOut ==
    /\ pc = "recordOut"
    /\ heap' = AppendTx(heap, call.self,
                        TransferOutTx(heap, call.to, call.amount, now))
    /\ pc' = "credit"
    /\ UNCHANGED <<accounts, saved, everSaved, now, backend, val, call, ret,
                   port, events>>

\* to.Balance += amount
TransferCredit ==
    /\ pc = "credit"
    /\ heap' = Credit(heap, call.to, call.amount)
    /\ pc' = "recordIn"
    /\ UNCHANGED <<accounts, saved, everSaved, now, backend, val, call, ret,
                   port, events>>

\* the record appended to the target
TransferRecordIn ==
    /\ pc = "recordIn"
    /\ heap' = AppendTx(heap, call.to,
                        TransferInTx(heap, call.self, call.amount, now))
    /\ pc' = "saveSource"
    /\ UNCHANGED <<accounts, saved, everSaved, now, backend, val, call, ret,
                   port, events>>

\* Faulty variant of TransferSaveSource: the error of the save is dropped and
\* the target is saved all the same.
M_TransferSaveSourceIgnoresError ==
    /\ pc = "saveSource"
    /\ \E ok \in SaveOutcomes :
        /\ accounts' = PortSave(accounts, heap, call.self, ok)
        /\ saved' = PortSaved(saved, heap, call.self, ok)
        /\ everSaved' = PortEverSaved(everSaved, call.self, ok)
        /\ port' = Append(port, PortCall(heap, call.self, ok))
    /\ pc' = "saveTarget"
    /\ UNCHANGED <<heap, now, backend, val, call, ret, events>>

\* if err := s.storage.SaveAccount(s.account); err != nil { return err }
TransferSaveSource ==
    /\ pc = "saveSource"
    /\ \E ok \in SaveOutcomes :
        /\ accounts' = PortSave(accounts, heap, call.self, ok)
        /\ saved' = PortSaved(saved, heap, call.self, ok)
        /\ everSaved' = PortEverSaved(everSaved, call.self, ok)
        /\ port' = Append(port, PortCall(heap, call.self, ok))
        /\ pc' = IF ok THEN "saveTarget" ELSE "returned"
        /\ ret' = IF ok THEN ret ELSE PortErr(call.self, ok)
    /\ UNCHANGED <<heap, now, backend, val, call, events>>

\* Faulty variant of TransferSaveTarget: the target is never saved.
M_TransferSkipsTargetSave ==
    /\ pc = "saveTarget"
    /\ ret' = Nil
    /\ events' = Bump(Bump(events, call.self), call.to)
    /\ pc' = "returned"
    /\ UNCHANGED <<heap, accounts, saved, everSaved, now, backend, val, call,
                   port>>

\* return s.storage.SaveAccount(to)
TransferSaveTarget ==
    /\ pc = "saveTarget"
    /\ \E ok \in SaveOutcomes :
        /\ accounts' = PortSave(accounts, heap, call.to, ok)
        /\ saved' = PortSaved(saved, heap, call.to, ok)
        /\ everSaved' = PortEverSaved(everSaved, call.to, ok)
        /\ port' = Append(port, PortCall(heap, call.to, ok))
        /\ ret' = PortErr(call.to, ok)
        /\ events' = IF ok THEN Bump(Bump(events, call.self), call.to)
                     ELSE events
    /\ pc' = "returned"
    /\ UNCHANGED <<heap, now, backend, val, call>>

\* storage.LoadAccount(accountID), called by the engine's caller
LoadAccountCall(accountID) ==
    /\ pc = "idle"
    /\ call' = CalledWithID("LoadAccount", accountID)
    /\ val' = LoadAccount(accounts, accountID)
    /\ ret' = IF LoadAccount(accounts, accountID) = 0
              THEN Err(ErrAccountNotFound) ELSE Nil
    /\ port' = <<>>
    /\ pc' = "returned"
    /\ UNCHANGED <<heap, accounts, saved, everSaved, now, backend, events>>

\* storage.GetAllAccounts(), called by the engine's caller
GetAllAccountsCall ==
    /\ pc = "idle"
    /\ call' = Called("GetAllAccounts", 0, 0, Zero)
    /\ \E order \in KeyOrders(accounts) :
        val' = GetAllAccounts(accounts, order)
    /\ ret' = Nil
    /\ port' = <<>>
    /\ pc' = "returned"
    /\ UNCHANGED <<heap, accounts, saved, everSaved, now, backend, events>>

\* AccountServiceImpl.GetBalance on the engine bound to account self
GetBalance(self) ==
    /\ pc = "idle"
    /\ call' = Called("GetBalance", self, 0, Zero)
    /\ val' = GetBalanceValue(heap[self])
    /\ ret' = Nil
    /\ port' = <<>>
    /\ pc' = "returned"
    /\ UNCHANGED <<heap, accounts, saved, everSaved, now, backend, events>>

\* AccountServiceImpl.GetStatement on the engine bound to account self
GetStatement(self) ==
    /\ pc = "idle"
    /\ call' = Called("GetStatement", self, 0, Zero)
    /\ val' = GetStatementText(heap[self])
    /\ ret' = Nil
    /\ port' = <<>>
    /\ pc' = "returned"
    /\ UNCHANGED <<heap, accounts, saved, everSaved, now, backend, events>>

\* The operations of the engine and of the Storage Port, called in any order
\* by a caller that is not the menu: BankApp's fields stay as constructed.
Next ==
    \/ Tick /\ UNCHANGED appVars
    \/ Return /\ UNCHANGED appVars
    \/ NewAccountCall /\ UNCHANGED appVars
    \/ \E p \in Ptrs : SaveAccountCall(p) /\ UNCHANGED appVars
    \/ \E id \in AccountIDs : LoadAccountCall(id) /\ UNCHANGED appVars
    \/ GetAllAccountsCall /\ UNCHANGED appVars
    \/ \E p \in Ptrs : GetBalance(p) /\ UNCHANGED appVars
    \/ \E p \in Ptrs : GetStatement(p) /\ UNCHANGED appVars
    \/ \E p \in Ptrs, a \in Amounts : Deposit(p, a) /\ UNCHANGED appVars
    \/ \E p \in Ptrs, a \in Amounts : Withdraw(p, a) /\ UNCHANGED appVars
    \/ \E p \in Ptrs, q \in Ptrs, a \in Amounts :
        Transfer(p, q, a) /\ UNCHANGED appVars
    \/ TransferDebit /\ UNCHANGED appVars
    \/ TransferRecordOut /\ UNCHANGED appVars
    \/ TransferCredit /\ UNCHANGED appVars
    \/ TransferRecordIn /\ UNCHANGED appVars
    \/ TransferSaveSource /\ UNCHANGED appVars
    \/ TransferSaveTarget /\ UNCHANGED appVars

Spec == Init /\ [][Next]_vars

SpecFaulty == InitFaulty /\ [][Next]_vars

----------------------------------------------------------------------------
(* BankApp: the menu loop driving the engines over a MemoryStorage *)

\* A line typed at a prompt: a text with blanks before and after it.
Typed(text) ==
    {[lead |-> n, text |-> text, trail |-> n] : n \in {0, 1}}

\* strings.TrimSpace(app.scanner.Text())
TrimSpace(input) == input.text

\* A text that is no number.
NotANumber == [text |-> "abc", int |-> 0, frac |-> 0]

OwnerInputs == Typed("") \cup Typed("ann")
IDInputs == UNION {Typed(id) : id \in AccountIDs \cup {NoID}}
AmountInputs == UNION {Typed(FormatFloat2(a)) : a \in Amounts}
                    \cup Typed(NotANumber)

\* strconv.ParseFloat(input, 64): decimal numbers, "NaN" and the infinities
\* are numbers, any other text is an error.
ParseFloat(input) ==
    IF input.text = "" THEN [err |-> FALSE, value |-> Fin(input.int)]
    ELSE IF input.text = "NaN" THEN [err |-> FALSE, value |-> NaN]
    ELSE IF input.text = "+Inf" THEN [err |-> FALSE, value |-> PInf]
    ELSE IF input.text = "-Inf" THEN [err |-> FALSE, value |-> NInf]
    ELSE [err |-> TRUE, value |-> Zero]

\* BankApp.readAmount
readAmount(input) ==
    LET parsed == ParseFloat(TrimSpace(input))
    IN  IF parsed.err \/ FLe(parsed.value, Zero)
        THEN [amount |-> Zero, err |-> ErrInvalidAmount]
        ELSE [amount |-> parsed.value, err |-> "nil"]

\* createAccount's refusal of an empty owner name
ErrOwnerEmpty == "ErrOwnerEmpty"

\* Faulty variant of CacheStore: an identifier already cached keeps its
\* engine.
M_CacheStoreKeepsFirst(cache, accountID, accountService) ==
    [id \in DOMAIN cache \cup {accountID} |->
        IF id \in DOMAIN cache THEN cache[id] ELSE accountService]

\* app.accounts[accountID] = accountService
CacheStore(cache, accountID, accountService) ==
    [id \in DOMAIN cache \cup {accountID} |->
        IF id = accountID THEN accountService ELSE cache[id]]

\* A menu command has been chosen with BankApp in its current state.
Chosen(name) ==
    cmd' = [name |-> name, currentAccount0 |-> currentAccount,
            appAccounts0 |-> appAccounts]

\* A command returns without having called an engine or the storage.
Returns(callRecord, e) ==
    /\ pc = "idle"
    /\ call' = callRecord
    /\ ret' = e
    /\ port' = <<>>
    /\ pc' = "returned"
    /\ UNCHANGED <<heap, accounts, saved, everSaved, now, backend, events,
                   val>>

\* BankApp.createAccount
createAccount(input) ==
    LET ownerName == TrimSpace(input)
        account == Len(heap) + 1
    IN  /\ Chosen("createAccount")
        /\ IF ownerName = ""
           THEN /\ Returns(Called("createAccount", 0, 0, Zero),
                           Err(ErrOwnerEmpty))
                /\ UNCHANGED appAccounts
           ELSE /\ pc = "idle"
                /\ Len(heap) < MaxAccounts
                /\ call' = Called("createAccount", account, 0, Zero)
                /\ heap' = Append(heap, NewAccount(ownerName, now))
                /\ events' = Append(events, 0)
                /\ \E ok \in SaveOutcomes :
                    /\ accounts' = PortSave(accounts, heap', account, ok)
                    /\ saved' = PortSaved(saved, heap', account, ok)
                    /\ everSaved' = PortEverSaved(everSaved, account, ok)
                    /\ ret' = PortErr(account, ok)
                    /\ port' = <<PortCall(heap', account, ok)>>
                    /\ appAccounts' =
                        IF ok
                        THEN CacheStore(appAccounts, heap'[account].ID,
                                        NewAccountService(account, backend))
                        ELSE appAccounts
                /\ pc' = "returned"
                /\ UNCHANGED <<now, backend, val>>
        /\ UNCHANGED currentAccount

\* BankApp.selectAccount
selectAccount(input) ==
    LET accountID == TrimSpace(input)
        exists == accountID \in DOMAIN appAccounts
        account == LoadAccount(accounts, accountID)
    IN  /\ Chosen("selectAccount")
        /\ IF exists
           THEN /\ Returns(CalledWithID("selectAccount", accountID), Nil)
                /\ currentAccount' = appAccounts[accountID]
                /\ UNCHANGED appAccounts
           ELSE IF account = 0
           THEN /\ Returns(CalledWithID("selectAccount", accountID),
                           Err(ErrAccountNotFound))
                /\ UNCHANGED <<appAccounts, currentAccount>>
           ELSE /\ Returns(CalledWithID("selectAccount", accountID), Nil)
                /\ appAccounts' =
                    CacheStore(appAccounts, accountID,
                               NewAccountService(account, backend))
                /\ currentAccount' = NewAccountService(account, backend)

\* BankApp.showAllAccounts
showAllAccounts ==
    /\ Chosen("showAllAccounts")
    /\ GetAllAccountsCall
    /\ UNCHANGED <<appAccounts, currentAccount>>

\* Faulty variant of deposit: an amount that is refused also drops the
\* selection.
M_depositDropsSelectionOnError(input) ==
    /\ Chosen("deposit")
    /\ IF readAmount(input).err # "nil"
       THEN /\ Returns(Called("deposit", currentAccount.account, 0, Zero),
                       Err(readAmount(input).err))
            /\ currentAccount' = NilService
       ELSE /\ Deposit(currentAccount.account, readAmount(input).amount)
            /\ UNCHANGED currentAccount
    /\ UNCHANGED appAccounts

\* BankApp.deposit
deposit(input) ==
    /\ Chosen("deposit")
    /\ IF readAmount(input).err # "nil"
       THEN Returns(Called("deposit", currentAccount.account, 0, Zero),
                    Err(readAmount(input).err))
       ELSE Deposit(currentAccount.account, readAmount(input).amount)
    /\ UNCHANGED <<appAccounts, currentAccount>>

\* BankApp.withdraw
withdraw(input) ==
    /\ Chosen("withdraw")
    /\ IF readAmount(input).err # "nil"
       THEN Returns(Called("withdraw", currentAccount.account, 0, Zero),
                    Err(readAmount(input).err))
       ELSE Withdraw(currentAccount.account, readAmount(input).amount)
    /\ UNCHANGED <<appAccounts, currentAccount>>

\* BankApp.transfer
transfer(input, idInput) ==
    LET toAccountID == TrimSpace(idInput)
        toAccount == LoadAccount(accounts, toAccountID)
    IN  /\ Chosen("transfer")
        /\ IF readAmount(input).err # "nil"
           THEN Returns(Called("transfer", currentAccount.account, 0, Zero),
                        Err(readAmount(input).err))
           ELSE IF toAccount = 0
           THEN Returns(Called("transfer", currentAccount.account, 0,
                               readAmount(input).amount),
                        Err(ErrAccountNotFound))
           ELSE Transfer(currentAccount.account, toAccount,
                         readAmount(input).amount)
        /\ UNCHANGED <<appAccounts, currentAccount>>

\* BankApp.showBalance
showBalance ==
    /\ Chosen("showBalance")
    /\ GetBalance(currentAccount.account)
    /\ UNCHANGED <<appAccounts, currentAccount>>

\* BankApp.showStatement
showStatement ==
    /\ Chosen("showStatement")
    /\ GetStatement(currentAccount.account)
    /\ UNCHANGED <<appAccounts, currentAccount>>

\* Option 6 of the account menu: app.currentAccount = nil
returnToMainMenu ==
    /\ Chosen("returnToMainMenu")
    /\ Returns(Called("returnToMainMenu", 0, 0, Zero), Nil)
    /\ currentAccount' = NilService
    /\ UNCHANGED appAccounts

\* The test of BankApp.Run's loop: the main menu is shown while no account
\* is selected, the account menu otherwise.
MainMenuShown == currentAccount = NilService
AccountMenuShown == currentAccount # NilService

\* BankApp.showMainMenu, once Run shows it: the command chosen
showMainMenu ==
    \/ \E input \in OwnerInputs : MainMenuShown /\ createAccount(input)
    \/ \E input \in IDInputs : MainMenuShown /\ selectAccount(input)
    \/ MainMenuShown /\ showAllAccounts

\* BankApp.showAccountMenu, once Run shows it: the command chosen
showAccountMenu ==
    \/ \E input \in AmountInputs : AccountMenuShown /\ deposit(input)
    \/ \E input \in AmountInputs : AccountMenuShown /\ withdraw(input)
    \/ \E input \in AmountInputs, idInput \in IDInputs :
        AccountMenuShown /\ transfer(input, idInput)
    \/ AccountMenuShown /\ showBalance
    \/ AccountMenuShown /\ showStatement
    \/ AccountMenuShown /\ returnToMainMenu

\* A command has ended: the loop goes round.
CommandDone ==
    /\ Return
    /\ cmd' = NoCmd
    /\ UNCHANGED <<appAccounts, currentAccount>>

\* BankApp.Run: the loop shows one of the two menus; a Transfer under way
\* goes on statement by statement.
Run ==
    \/ showMainMenu
    \/ showAccountMenu
    \/ CommandDone
    \/ Tick /\ UNCHANGED appVars
    \/ TransferDebit /\ UNCHANGED appVars
    \/ TransferRecordOut /\ UNCHANGED appVars
    \/ TransferCredit /\ UNCHANGED appVars
    \/ TransferRecordIn /\ UNCHANGED appVars
    \/ TransferSaveSource /\ UNCHANGED appVars
    \/ TransferSaveTarget /\ UNCHANGED appVars

\* NewBankApp() and Run()
SpecApp == Init /\ [][Run]_vars

----------------------------------------------------------------------------
(* Properties *)

\* The call that has just returned.
ReturnedFrom(op) == pc = "returned" /\ call.op = op

\* new is old with exactly one record appended.
GrewByOne(old, new) ==
    /\ Len(new) = Len(old) + 1
    /\ SubSeq(new, 1, Len(old)) = old

Last(seq) == seq[Len(seq)]

\* Neither the account objects nor the storage map differ from what they
\* were when the call was made.
NothingChanged == heap = call.heap0 /\ accounts = call.accounts0

\* The accounts the Storage Port can load.
Stored == {accounts[id] : id \in DOMAIN accounts}

\* C1: every account that can be loaded from the Storage Port has
\* balance >= 0 in every reachable state, the states inside a Transfer
\* included.
C1_BalanceNonNegative ==
    \A p \in Stored : FLe(Zero, heap[p].Balance)

\* C2: after a successful Transfer of A from X to Y, X holds Bx - A and Y
\* holds By + A, each of the two transaction sequences has grown by exactly
\* one TRANSFER record of amount A, and both accounts load from the Storage
\* Port with that state.
C2_TransferPostState ==
    (ReturnedFrom("Transfer") /\ ret = Nil) =>
        LET X == call.self
            Y == call.to
            A == call.amount
            h0 == call.heap0
        IN  /\ X # Y
            /\ heap[X].Balance = FSub(h0[X].Balance, A)
            /\ heap[Y].Balance = FAdd(h0[Y].Balance, A)
            /\ GrewByOne(h0[X].Transactions, heap[X].Transactions)
            /\ GrewByOne(h0[Y].Transactions, heap[Y].Transactions)
            /\ Last(heap[X].Transactions).Type = TransferTransaction
            /\ Last(heap[X].Transactions).Amount = A
            /\ Last(heap[Y].Transactions).Type = TransferTransaction
            /\ Last(heap[Y].Transactions).Amount = A
            /\ LoadAccount(accounts, heap[X].ID) = X
            /\ LoadAccount(accounts, heap[Y].ID) = Y

\* A Transfer has succeeded into a target that had never been saved.
C2_Witness ==
    /\ ReturnedFrom("Transfer")
    /\ ret = Nil
    /\ call.heap0[call.to].ID \notin DOMAIN call.accounts0
    /\ heap[call.self].Balance = Fin(1)
    /\ heap[call.to].Balance = Fin(1)

\* C3 as stated: a Transfer to a target with the source's identifier fails
\* with SameAccountTransfer whatever the amount and the balance.
C3_SelfTransferAlwaysSameAccount ==
    (ReturnedFrom("Transfer")
        /\ call.heap0[call.self].ID = call.heap0[call.to].ID)
    => ret = Err(ErrSameAccountTransfer)

\* C3 amended: a Transfer to a target with the source's identifier always
\* fails and changes nothing; the error is InvalidAmount when amount <= 0,
\* otherwise InsufficientFunds when the balance is less than the amount,
\* and SameAccountTransfer in every other case.
C3_SelfTransferFails ==
    (ReturnedFrom("Transfer")
        /\ call.heap0[call.self].ID = call.heap0[call.to].ID)
    => /\ ret = Err(IF FLe(call.amount, Zero) THEN ErrInvalidAmount
                    ELSE IF FLt(call.heap0[call.self].Balance, call.amount)
                         THEN ErrInsufficientFunds
                    ELSE ErrSameAccountTransfer)
       /\ NothingChanged
       /\ port = <<>>

\* A funded account's Transfer to itself has returned SameAccountTransfer.
C3_Witness ==
    /\ ReturnedFrom("Transfer")
    /\ call.self = call.to
    /\ FLt(Zero, call.amount)
    /\ ret = Err(ErrSameAccountTransfer)

\* C4: Withdraw of more than the balance fails with InsufficientFunds, and
\* Withdraw of an amount <= 0 fails with InvalidAmount; either way the
\* account's balance, its transaction sequence and the storage are as before.
C4_WithdrawRejected ==
    ReturnedFrom("Withdraw") =>
        /\ FLt(call.heap0[call.self].Balance, call.amount)
            => (ret = Err(ErrInsufficientFunds) /\ NothingChanged)
        /\ FLe(call.amount, Zero)
            => (ret = Err(ErrInvalidAmount) /\ NothingChanged)

\* An account holding 1 has refused a Withdraw of 2.
C4_Witness ==
    /\ ReturnedFrom("Withdraw")
    /\ call.heap0[call.self].Balance = Fin(1)
    /\ call.amount = Fin(2)
    /\ ret = Err(ErrInsufficientFunds)

\* C5: Deposit of an amount <= 0 fails with InvalidAmount, leaves the
\* account's balance and transaction sequence as they were and makes no
\* call to the Storage Port.
C5_DepositRejected ==
    (ReturnedFrom("Deposit") /\ FLe(call.amount, Zero)) =>
        /\ ret = Err(ErrInvalidAmount)
        /\ NothingChanged
        /\ port = <<>>

\* An account with a history has refused a Deposit of 0.
C5_Witness ==
    /\ ReturnedFrom("Deposit")
    /\ call.amount = Zero
    /\ Len(heap[call.self].Transactions) > 0
    /\ ret = Err(ErrInvalidAmount)

\* C6: a Transfer that returns InvalidAmount, InsufficientFunds or
\* SameAccountTransfer has changed no account and no storage entry and has
\* not called the Storage Port; and a Transfer that is past its checks and
\* mutating was called with arguments that pass all three.
C6_TransferRejectedFrame ==
    /\ (ReturnedFrom("Transfer")
            /\ ret.err \in {ErrInvalidAmount, ErrInsufficientFunds,
                            ErrSameAccountTransfer})
        => (NothingChanged /\ port = <<>>)
    /\ (call.op = "Transfer" /\ heap # call.heap0)
        => TransferError(call.heap0, call.self, call.to, call.amount) = "nil"

\* A Transfer between two funded accounts has been refused for its amount.
C6_Witness ==
    /\ ReturnedFrom("Transfer")
    /\ ret = Err(ErrInsufficientFunds)
    /\ call.self # call.to
    /\ heap[call.self].Balance = Fin(1)
    /\ heap[call.to].Balance = Fin(1)

\* C7: between calls every account's transaction sequence is as long as the
\* number of successful Deposits and Withdraws on it plus the successful
\* Transfers it was source or target of; a successful Deposit or Withdraw
\* appends exactly one record, of its type and amount, to the bound account
\* and touches no other account; a failed validation appends nothing.
C7_OneRecordPerEvent ==
    /\ pc \in {"idle", "returned"}
        => \A p \in Ptrs : Len(heap[p].Transactions) = events[p]
    /\ \A op \in {"Deposit", "Withdraw"} :
        (ReturnedFrom(op) /\ ret = Nil) =>
            /\ GrewByOne(call.heap0[call.self].Transactions,
                         heap[call.self].Transactions)
            /\ Last(heap[call.self].Transactions).Type =
                   (IF op = "Deposit" THEN DepositTransaction
                    ELSE WithdrawTransaction)
            /\ Last(heap[call.self].Transactions).Amount = call.amount
            /\ \A q \in Ptrs \ {call.self} : heap[q] = call.heap0[q]
    /\ (pc = "returned"
            /\ ret.err \in {ErrInvalidAmount, ErrInsufficientFunds,
                            ErrSameAccountTransfer})
        => heap = call.heap0

\* After a Deposit and a Transfer the source holds two records and the
\* target one.
C7_Witness ==
    /\ ReturnedFrom("Transfer")
    /\ ret = Nil
    /\ events[call.self] = 2
    /\ events[call.to] = 1
    /\ heap[call.self].Transactions[1].Type = DepositTransaction

\* The places of all transaction records: account and index.
TxRefs ==
    UNION {{<<p, i>> : i \in 1..Len(heap[p].Transactions)} : p \in Ptrs}

TxOf(r) == heap[r[1]].Transactions[r[2]]

\* C8: no two transaction records anywhere in the system carry the same
\* identifier, the two records of one Transfer included.
C8_TransactionIDsUnique ==
    \A a, b \in TxRefs : a # b => TxOf(a).ID # TxOf(b).ID

\* C9: any two accounts created by NewAccount have distinct identifiers, so
\* saving a new account never replaces the entry of another account.
C9_AccountIDsUnique ==
    /\ \A p, q \in Ptrs : p # q => heap[p].ID # heap[q].ID
    /\ (ReturnedFrom("SaveAccount") /\ ret = Nil
            /\ heap[call.self].ID \in DOMAIN call.accounts0)
        => call.accounts0[heap[call.self].ID] = call.self

\* The four in-memory mutations of the running or returned Transfer are in
\* place.
TransferMutated ==
    LET X == call.self
        Y == call.to
        A == call.amount
        h0 == call.heap0
    IN  /\ heap[X].Balance = FSub(h0[X].Balance, A)
        /\ GrewByOne(h0[X].Transactions, heap[X].Transactions)
        /\ heap[Y].Balance = FAdd(h0[Y].Balance, A)
        /\ GrewByOne(h0[Y].Transactions, heap[Y].Transactions)

\* C10: with a Storage Port whose save may fail, a Transfer makes its four
\* in-memory mutations before any save; it saves the source first; when the
\* source's save fails it returns that error and never saves the target;
\* when the source's save succeeds and the target's fails it returns the
\* target's error; in both cases the mutations stay in place.
C10_TransferPersistOrder ==
    call.op = "Transfer" =>
        /\ port # <<>> => TransferMutated
        /\ Len(port) <= 2
        /\ Len(port) >= 1 => port[1].account = call.self
        /\ Len(port) = 2 => (port[1].ok /\ port[2].account = call.to)
        /\ (pc = "returned" /\ Len(port) = 1)
            => (~port[1].ok /\ ret = PersistErr(call.self)
                /\ accounts = call.accounts0)
        /\ (pc = "returned" /\ Len(port) = 2 /\ ~port[2].ok)
            => (ret = PersistErr(call.to)
                /\ LoadAccount(accounts, heap[call.self].ID) = call.self)
        /\ (pc = "returned" /\ Len(port) = 2 /\ port[2].ok) => ret = Nil

\* The source was saved, the target's save failed, and the Transfer has
\* returned.
C10_Witness ==
    /\ ReturnedFrom("Transfer")
    /\ Len(port) = 2
    /\ port[1].ok
    /\ ~port[2].ok
    /\ ret = PersistErr(call.to)
    /\ heap[call.to].Balance = Fin(1)

\* C11: right after a successful save of an account, loading by that
\* account's identifier succeeds and gives an account whose balance and
\* whole transaction sequence are those the save was handed, whatever the
\* storage held before under this or any other identifier.
C11_SaveLoadRoundTrip ==
    pc = "returned" =>
        \A i \in DOMAIN port :
            port[i].ok =>
                LET got == LoadAccount(accounts, port[i].state.ID)
                IN  /\ got # 0
                    /\ heap[got].Balance = port[i].state.Balance
                    /\ heap[got].Transactions = port[i].state.Transactions

\* An account with a record has been saved under an identifier that held
\* another account.
C11_Witness ==
    /\ ReturnedFrom("SaveAccount")
    /\ ret = Nil
    /\ heap[call.self].ID \in DOMAIN call.accounts0
    /\ call.accounts0[heap[call.self].ID] # call.self
    /\ Len(heap[call.self].Transactions) = 1
    /\ LoadAccount(accounts, heap[call.self].ID) = call.self

\* C12: LoadAccount(id) returns AccountNotFound and no account exactly when
\* no account was ever saved under id; otherwise it returns, without an
\* error, the account last saved under id; either way the storage and the
\* accounts are as before the call.
C12_LoadAccountNotFound ==
    ReturnedFrom("LoadAccount") =>
        /\ ret \in {Nil, Err(ErrAccountNotFound)}
        /\ ret = Err(ErrAccountNotFound) <=> call.id \notin DOMAIN saved
        /\ ret = Err(ErrAccountNotFound) => val = 0
        /\ ret = Nil => (val = saved[call.id] /\ heap[val].ID = call.id)
        /\ NothingChanged
        /\ port = <<>>

\* An identifier nothing was saved under has been asked for while the
\* storage holds an account under another identifier.
C12_Witness ==
    /\ ReturnedFrom("LoadAccount")
    /\ ret = Err(ErrAccountNotFound)
    /\ DOMAIN accounts # {}
    /\ call.id \notin DOMAIN accounts

\* C13: SaveAccount(account) on the in-memory backend never fails; it puts
\* the account under account.ID, creating or replacing that entry, and
\* leaves every other entry and every account as they were; saving the same
\* account again in the same state gives the same storage contents.
C13_SaveAccountUpsert ==
    ReturnedFrom("SaveAccount") =>
        LET id == call.heap0[call.self].ID
        IN  /\ ret = Nil
            /\ DOMAIN accounts = DOMAIN call.accounts0 \cup {id}
            /\ accounts[id] = call.self
            /\ \A k \in DOMAIN call.accounts0 \ {id} :
                    accounts[k] = call.accounts0[k]
            /\ heap = call.heap0
            /\ SaveAccount(accounts, heap, call.self) = accounts

\* An account has been saved again while the storage held it and an account
\* under another identifier.
C13_Witness ==
    /\ ReturnedFrom("SaveAccount")
    /\ ret = Nil
    /\ Cardinality(DOMAIN call.accounts0) = 2
    /\ call.accounts0[heap[call.self].ID] = call.self
    /\ accounts = call.accounts0

\* old is a prefix of new.
IsPrefix(old, new) ==
    /\ Len(old) <= Len(new)
    /\ SubSeq(new, 1, Len(old)) = old

\* C14: during and after any operation (Deposit, Withdraw, Transfer,
\* GetBalance, GetStatement, SaveAccount, LoadAccount, GetAllAccounts, and
\* the creation of an account) every account that existed when the operation
\* was called is still there with the identifier it had, and the transaction
\* sequence it had is a prefix of the one it has: no record was removed,
\* moved or changed.
C14_RecordsAppendOnly ==
    call.op # "none" =>
        /\ Len(call.heap0) <= Len(heap)
        /\ \A p \in DOMAIN call.heap0 :
            /\ heap[p].ID = call.heap0[p].ID
            /\ IsPrefix(call.heap0[p].Transactions, heap[p].Transactions)

\* A Transfer whose save failed has returned, its record appended after the
\* record the source already had.
C14_Witness ==
    /\ ReturnedFrom("Transfer")
    /\ ret = PersistErr(call.self)
    /\ Len(call.heap0[call.self].Transactions) = 1
    /\ Len(heap[call.self].Transactions) = 2
    /\ heap[call.self].Transactions[1] # heap[call.self].Transactions[2]

IsTxLine(l) == l.kind = "tx"

\* C15: GetStatement on an account without transactions returns the
\* empty-history message and nothing else; on an account with N >= 1
\* transactions the statement has exactly N transaction lines, the i-th
\* showing the time, type, amount and message of the i-th transaction
\* appended, all of them before the last line, which shows the current
\* balance; GetStatement returns no error and changes no account and no
\* storage entry.
C15_GetStatement ==
    ReturnedFrom("GetStatement") =>
        LET account == call.heap0[call.self]
            txs == account.Transactions
            entries == SelectSeq(val, IsTxLine)
        IN  /\ ret = Nil
            /\ Len(txs) = 0 => val = EmptyHistory
            /\ Len(txs) >= 1 =>
                /\ Len(entries) = Len(txs)
                /\ \A i \in DOMAIN txs :
                    /\ entries[i].fields[1] = FormatTime(txs[i].Timestamp)
                    /\ entries[i].fields[2] = txs[i].Type
                    /\ entries[i].fields[3] = FormatFloat2(txs[i].Amount)
                    /\ entries[i].fields[4] = txs[i].Message
                /\ Last(val).kind = "balance"
                /\ Last(val).fields = <<FormatFloat2(account.Balance)>>
                /\ \A k \in DOMAIN val : val[k].kind # "empty history"
            /\ NothingChanged
            /\ port = <<>>

\* The statement of an account with a Deposit of 2 and then a Withdraw of
\* 1 has been returned.
C15_Witness ==
    /\ ReturnedFrom("GetStatement")
    /\ Len(heap[call.self].Transactions) = 2
    /\ heap[call.self].Transactions[1].Type = DepositTransaction
    /\ heap[call.self].Transactions[2].Type = WithdrawTransaction
    /\ heap[call.self].Balance = Fin(1)
    /\ Len(val) = 9

\* What one record did to the balance of the account it is on.
Applied(balance, tx) ==
    IF tx.Type = DepositTransaction \/ tx.Message.text = "transfer from"
    THEN FAdd(balance, tx.Amount)
    ELSE FSub(balance, tx.Amount)

\* The balance of a new account after the operations recorded in txs.
RECURSIVE Replay(_)
Replay(txs) ==
    IF txs = <<>> THEN Zero
    ELSE Applied(Replay(SubSeq(txs, 1, Len(txs) - 1)), txs[Len(txs)])

\* C16: GetBalance returns the balance the bound account holds, which is
\* the balance all the successful operations recorded on that account add
\* up to, the credits of Transfers made by other engines included; it
\* returns no error and leaves every account and the storage as they were.
C16_GetBalance ==
    ReturnedFrom("GetBalance") =>
        /\ val = heap[call.self].Balance
        /\ val = Replay(heap[call.self].Transactions)
        /\ ret = Nil
        /\ NothingChanged
        /\ port = <<>>

\* The balance of an account whose only record is a Transfer it received
\* has been read.
C16_Witness ==
    /\ ReturnedFrom("GetBalance")
    /\ Len(heap[call.self].Transactions) = 1
    /\ heap[call.self].Transactions[1].Message.text = "transfer from"
    /\ val = Fin(1)

\* C17: GetAllAccounts returns, without an error, the accounts held by the
\* storage, each exactly once: the identifiers of the accounts returned are
\* the identifiers ever saved under, each returned account is the one last
\* saved under its identifier, the result is as long as there are such
\* identifiers, and the storage and the accounts are as before the call.
C17_GetAllAccounts ==
    ReturnedFrom("GetAllAccounts") =>
        /\ ret = Nil
        /\ {heap[val[i]].ID : i \in DOMAIN val} = DOMAIN saved
        /\ Len(val) = Cardinality(DOMAIN saved)
        /\ \A i \in DOMAIN val : val[i] = saved[heap[val[i]].ID]
        /\ \A i, j \in DOMAIN val : i # j => val[i] # val[j]
        /\ NothingChanged
        /\ port = <<>>

\* Two stored accounts have been listed, the one created later first.
C17_Witness ==
    /\ ReturnedFrom("GetAllAccounts")
    /\ Len(val) = 2
    /\ val[1] = 2
    /\ val[2] = 1

\* C18: a Transfer returns InvalidAmount if amount <= 0; otherwise
\* InsufficientFunds if the source balance is less than the amount;
\* otherwise SameAccountTransfer if source and target have the same
\* identifier; and it returns SameAccountTransfer only when amount > 0 and
\* the source balance is at least the amount.
C18_TransferErrorPrecedence ==
    ReturnedFrom("Transfer") =>
        LET A == call.amount
            B == call.heap0[call.self].Balance
            same == call.heap0[call.self].ID = call.heap0[call.to].ID
        IN  /\ FLe(A, Zero) => ret = Err(ErrInvalidAmount)
            /\ (~FLe(A, Zero) /\ FLt(B, A))
                => ret = Err(ErrInsufficientFunds)
            /\ (~FLe(A, Zero) /\ ~FLt(B, A) /\ same)
                => ret = Err(ErrSameAccountTransfer)
            /\ ret = Err(ErrSameAccountTransfer)
                => (FLt(Zero, A) /\ FLe(A, B))

\* The sum of the balances of all accounts.
RECURSIVE Total(_)
Total(h) ==
    IF h = <<>> THEN Zero ELSE FAdd(Head(h).Balance, Total(Tail(h)))

\* The sum of the amounts of the records of one type in a sequence, and in
\* all accounts.
RECURSIVE SumOfType(_, _)
SumOfType(txs, type) ==
    IF txs = <<>> THEN Zero
    ELSE FAdd(IF Head(txs).Type = type THEN Head(txs).Amount ELSE Zero,
              SumOfType(Tail(txs), type))

RECURSIVE SumOverAccounts(_, _)
SumOverAccounts(h, type) ==
    IF h = <<>> THEN Zero
    ELSE FAdd(SumOfType(Head(h).Transactions, type),
              SumOverAccounts(Tail(h), type))

\* C19: the sum of all balances is greater by exactly the amount after a
\* successful Deposit, smaller by exactly the amount after a successful
\* Withdraw, and the same after every Transfer and after every failed
\* operation; between calls it equals the sum of the successful deposits
\* minus the sum of the successful withdrawals.
C19_Conservation ==
    /\ (ReturnedFrom("Deposit") /\ ret = Nil)
        => Total(heap) = FAdd(Total(call.heap0), call.amount)
    /\ (ReturnedFrom("Withdraw") /\ ret = Nil)
        => Total(heap) = FSub(Total(call.heap0), call.amount)
    /\ ReturnedFrom("Transfer") => Total(heap) = Total(call.heap0)
    /\ (pc = "returned" /\ ret # Nil) => Total(heap) = Total(call.heap0)
    /\ pc \in {"idle", "returned"}
        => Total(heap) = FSub(SumOverAccounts(heap, DepositTransaction),
                              SumOverAccounts(heap, WithdrawTransaction))

\* C20: with a Storage Port whose save may fail, a Deposit or Withdraw that
\* returns neither InvalidAmount nor InsufficientFunds has changed the
\* balance of the bound account by the amount and appended its record,
\* then called save once, with the account in that new state, and returned
\* what save returned; when save failed, the error is the persistence error,
\* nothing was stored, and the account keeps the new balance and record.
C20_DepositWithdrawNoRollback ==
    \A op \in {"Deposit", "Withdraw"} :
        ReturnedFrom(op) =>
            LET X == call.self
                A == call.amount
                h0 == call.heap0
            IN  IF ret.err \in {ErrInvalidAmount, ErrInsufficientFunds}
                THEN NothingChanged /\ port = <<>>
                ELSE /\ heap[X].Balance =
                            (IF op = "Deposit" THEN FAdd(h0[X].Balance, A)
                             ELSE FSub(h0[X].Balance, A))
                     /\ GrewByOne(h0[X].Transactions, heap[X].Transactions)
                     /\ Last(heap[X].Transactions).Amount = A
                     /\ \A q \in Ptrs \ {X} : heap[q] = h0[q]
                     /\ Len(port) = 1
                     /\ port[1].account = X
                     /\ port[1].state = heap[X]
                     /\ ret = (IF port[1].ok THEN Nil ELSE PersistErr(X))
                     /\ ~port[1].ok => accounts = call.accounts0

\* A Withdraw of 1 from an account holding 2 has returned the error of its
\* save; the account holds 1.
C20_Witness ==
    /\ ReturnedFrom("Withdraw")
    /\ ret = PersistErr(call.self)
    /\ call.heap0[call.self].Balance = Fin(2)
    /\ heap[call.self].Balance = Fin(1)
    /\ Len(heap[call.self].Transactions) = 2

\* The operations of the engine.
EngineOps == {"Deposit", "Withdraw", "Transfer", "GetBalance", "GetStatement"}

\* C21: with the in-memory backend, after every operation of an engine,
\* successful or failed, every account that has been saved loads from the
\* storage, by its identifier, with the balance and the transaction
\* sequence that the account itself, which the engines are bound to, holds.
C21_PersistedNeverDiverges ==
    (pc = "returned" /\ call.op \in EngineOps) =>
        \A p \in everSaved :
            LET got == LoadAccount(accounts, heap[p].ID)
            IN  /\ got # 0
                /\ heap[got].Balance = heap[p].Balance
                /\ heap[got].Transactions = heap[p].Transactions

\* C22: in the menu application every engine in the session cache, under
\* key k, is bound to the account the storage holds under k, whose
\* identifier is k, and the selected engine is one of the cache; so the
\* balance and the statement shown for the selected account are those of
\* the stored account, credits and records of transfers received included.
C22_CacheConsistent ==
    /\ \A k \in DOMAIN appAccounts :
        /\ k \in DOMAIN accounts
        /\ appAccounts[k].account = accounts[k]
        /\ heap[accounts[k]].ID = k
    /\ currentAccount # NilService
        => \E k \in DOMAIN appAccounts : appAccounts[k] = currentAccount
    /\ ReturnedFrom("GetBalance")
        => val = heap[accounts[heap[call.self].ID]].Balance
    /\ ReturnedFrom("GetStatement")
        => LET txs == heap[accounts[heap[call.self].ID]].Transactions
           IN  txs # <<>> =>
                SelectSeq(val, IsTxLine) = [i \in DOMAIN txs |-> TxLine(txs[i])]

\* After a transfer into an account, that account has been selected and its
\* balance shown: the amount received.
C22_Witness ==
    /\ cmd.name = "showBalance"
    /\ ReturnedFrom("GetBalance")
    /\ Len(heap[call.self].Transactions) = 1
    /\ heap[call.self].Transactions[1].Message.text = "transfer from"
    /\ currentAccount = appAccounts[heap[call.self].ID]
    /\ val = Fin(1)

\* The commands of the account menu that work on the selected account.
AccountCommands ==
    {"deposit", "withdraw", "transfer", "showBalance", "showStatement"}

\* C23: in the menu application a command on the selected account (deposit,
\* withdraw, transfer, showBalance, showStatement) is only chosen while
\* currentAccount is not nil, and the engine it calls is currentAccount;
\* while and after any command, currentAccount differs from what it was
\* when the command was chosen only after a selectAccount that found its
\* identifier in the cache or in the storage (it is then not nil) or after
\* the return to the main menu (it is then nil); a selectAccount that finds
\* nothing and every command on the selected account, failed ones
\* included, leave it as it was.
C23_CurrentAccountStateMachine ==
    /\ cmd.name \in AccountCommands
        => /\ cmd.currentAccount0 # NilService
           /\ call.self = cmd.currentAccount0.account
           /\ currentAccount = cmd.currentAccount0
    /\ (cmd.name # "none" /\ currentAccount # cmd.currentAccount0)
        => \/ /\ cmd.name = "selectAccount"
              /\ ret = Nil
              /\ call.id \in DOMAIN cmd.appAccounts0
                                \cup DOMAIN call.accounts0
              /\ currentAccount # NilService
           \/ /\ cmd.name = "returnToMainMenu"
              /\ currentAccount = NilService
    /\ (cmd.name = "selectAccount" /\ ret # Nil)
        => (currentAccount = cmd.currentAccount0
            /\ call.id \notin DOMAIN cmd.appAccounts0
            /\ call.id \notin DOMAIN call.accounts0)

\* A transfer to an identifier the storage does not hold has been refused;
\* the account stays selected.
C23_Witness ==
    /\ cmd.name = "transfer"
    /\ pc = "returned"
    /\ ret = Err(ErrAccountNotFound)
    /\ DOMAIN accounts # {}
    /\ currentAccount # NilService
    /\ currentAccount = cmd.currentAccount0

====
